---- MODULE Spec2Model ----
(***************************************************************************)
(* MLDataset (src/mldataset.py): three parallel key -> value mappings      *)
(* (features, labels, class ids) with a cached feature dimensionality and  *)
(* container type.  Mappings are Python objects held by reference, so the  *)
(* model keeps them in a heap and the datasets hold addresses.             *)
(***************************************************************************)
EXTENDS Integers, Sequences, FiniteSets, TLC

\* ---- bounds of the model ----
MaxLen == 2
MaxIds == 2

\* ---- value domains ----
Keys == {"s1", "s2"}
FeatTypes == {"list", "ndarray"}
FeatLens == 1..MaxLen
Feats == [type : FeatTypes, len : FeatLens]
Labels == {0, 1}
ClassIds == {"x", "y"}
Descriptions == {"", "d"}
Slots == {1, 2}
Addrs == 1..(3 * Cardinality(Slots))

VARIABLES heap, ds, last
vars == <<heap, ds, last>>

\* ---- Python values ----
NoneV == [kind |-> "None", items |-> <<>>]
NotADict == [kind |-> "list", items |-> <<>>]
NoObj == [kind |-> "free", items |-> <<>>]

InjSeqs(S, n) == {s \in [1..n -> S] : \A i, j \in 1..n : s[i] = s[j] => i = j}

ItemSeqs(V) ==
    UNION {{[i \in 1..n |-> <<ks[i], vs[i]>>] : ks \in InjSeqs(Keys, n), vs \in [1..n -> V]}
           : n \in 0..Cardinality(Keys)}

\* the mappings callers pass are OrderedDicts (a subclass of dict)
Dicts(V) == [kind : {"OrderedDict"}, items : ItemSeqs(V)]

IsDict(v) == v.kind \in {"dict", "OrderedDict"}
IsNone(v) == v.kind = "None"
DictLen(m) == Len(m.items)
KeySeq(m) == [i \in 1..Len(m.items) |-> m.items[i][1]]
ValSeq(m) == [i \in 1..Len(m.items) |-> m.items[i][2]]
DictKeys(m) == {m.items[i][1] : i \in 1..Len(m.items)}
DictGet(m, k) == m.items[CHOOSE i \in 1..Len(m.items) : m.items[i][1] = k][2]

\* isinstance(features, self.__dtype): the class itself or a subclass of it
IsInstance(ftype, dtype) ==
    \/ ftype = dtype
    \/ ftype = "OrderedDict" /\ dtype = "dict"

\* d[k] = v on an OrderedDict: an existing key keeps its position, a new key
\* goes last
DictSetItem(m, k, v) ==
    IF k \in DictKeys(m)
    THEN [m EXCEPT !.items = [i \in 1..Len(m.items) |->
                                IF m.items[i][1] = k THEN <<k, v>> ELSE m.items[i]]]
    ELSE [m EXCEPT !.items = Append(m.items, <<k, v>>)]

\* OrderedDict(d): a new ordered mapping with d's items in d's iteration order
OrderedDict(m) == [kind |-> "OrderedDict", items |-> m.items]

\* ---- dataset objects ----
Dead == [alive |-> FALSE, data |-> 0, labels |-> 0, classes |-> 0,
         num_features |-> 0, dtype |-> "unset", description |-> ""]

Fields == {"data", "labels", "classes"}
Ref(o, f) == IF f = "data" THEN o.data ELSE IF f = "labels" THEN o.labels ELSE o.classes
Home(t, f) == 3 * (t - 1) + (IF f = "data" THEN 1 ELSE IF f = "labels" THEN 2 ELSE 3)

\* address of a newly allocated mapping object for field f of the dataset in
\* slot t: any address no other field refers to
NewAddr(d, t, f) ==
    LET used == {Ref(d[s], g) : <<s, g>> \in (Slots \X Fields) \ {<<t, f>>}}
    IN IF Home(t, f) \notin used THEN Home(t, f) ELSE CHOOSE a \in Addrs : a \notin used

\* reference counting: a mapping no dataset refers to is gone
Collect(h, d) ==
    [a \in Addrs |-> IF \E s \in Slots, f \in Fields : Ref(d[s], f) = a THEN h[a] ELSE NoObj]

num_samples(h, o) == DictLen(h[o.data])
keys(h, o) == KeySeq(h[o.data])
classes(h, o) == ValSeq(h[o.classes])
class_set(h, o) == {classes(h, o)[i] : i \in 1..Len(classes(h, o))}
\* Counter(self.classes): class id -> number of occurrences
class_sizes(h, o) ==
    [c \in class_set(h, o) |-> Cardinality({i \in 1..Len(classes(h, o)) : classes(h, o)[i] = c})]

\* the constructor's checks as they would be without the assertion that all
\* samples have the same number of features
InitResultNoDimCheck(data, labels, clss) ==
    IF IsNone(data) \/ IsNone(labels) THEN "empty"
    ELSE IF ~IsDict(data) THEN "SchemaError"
    ELSE IF ~IsDict(labels) THEN "SchemaError"
    ELSE IF ~IsNone(clss) /\ ~IsDict(clss) THEN "SchemaError"
    ELSE IF DictLen(data) # DictLen(labels) THEN "SizeMismatchError"
    ELSE IF IsNone(clss) THEN "TypeError"
    ELSE IF DictLen(labels) # DictLen(clss) THEN "SizeMismatchError"
    ELSE IF ~(DictKeys(data) = DictKeys(labels) /\ DictKeys(labels) = DictKeys(clss))
         THEN "KeyMismatchError"
    ELSE IF DictLen(data) = 0 THEN "DimensionalityError"
    ELSE "ok"

\* ---- __init__ ----
\* which branch or assertion of the constructor decides the call
InitResult(data, labels, clss) ==
    IF IsNone(data) \/ IsNone(labels) THEN "empty"
    ELSE IF ~IsDict(data) THEN "SchemaError"
    ELSE IF ~IsDict(labels) THEN "SchemaError"
    ELSE IF ~IsNone(clss) /\ ~IsDict(clss) THEN "SchemaError"
    ELSE IF DictLen(data) # DictLen(labels) THEN "SizeMismatchError"
    ELSE IF IsNone(clss) THEN "TypeError"
    ELSE IF DictLen(labels) # DictLen(clss) THEN "SizeMismatchError"
    ELSE IF ~(DictKeys(data) = DictKeys(labels) /\ DictKeys(labels) = DictKeys(clss))
         THEN "KeyMismatchError"
    ELSE IF Cardinality({ValSeq(data)[i].len : i \in 1..DictLen(data)}) # 1
         THEN "DimensionalityError"
    ELSE "ok"

\* MLDataset(data, labels, classes, description) built in slot t of d:
\* the new heap, the new object (Dead when the constructor raised), the result
MLDataset(h, d, t, data, labels, clss, description) ==
    LET r == InitResult(data, labels, clss)
        d0 == [d EXCEPT ![t] = Dead]
        a1 == NewAddr(d0, t, "data")
        d1 == [d0 EXCEPT ![t].data = a1]
        a2 == NewAddr(d1, t, "labels")
        d2 == [d1 EXCEPT ![t].labels = a2]
        a3 == NewAddr(d2, t, "classes")
        empty == [kind |-> "OrderedDict", items |-> <<>>]
    IN IF r = "empty"
       THEN [h |-> [h EXCEPT ![a1] = empty, ![a2] = empty, ![a3] = empty],
             o |-> [alive |-> TRUE, data |-> a1, labels |-> a2, classes |-> a3,
                    num_features |-> 0, dtype |-> "unset", description |-> description],
             res |-> "ok"]
       ELSE IF r = "ok"
       THEN [h |-> [h EXCEPT ![a1] = OrderedDict(data), ![a2] = OrderedDict(labels),
                             ![a3] = OrderedDict(clss)],
             o |-> [alive |-> TRUE, data |-> a1, labels |-> a2, classes |-> a3,
                    num_features |-> ValSeq(data)[1].len, dtype |-> data.kind,
                    description |-> description],
             res |-> "ok"]
       ELSE [h |-> h, o |-> Dead, res |-> r]

\* ---- add_sample ----
\* the three item assignments, in the order of the code, on the heap
Store3(h, o, id, f, l, c) ==
    LET h1 == [h EXCEPT ![o.data] = DictSetItem(h[o.data], id, f)]
        h2 == [h1 EXCEPT ![o.labels] = DictSetItem(h1[o.labels], id, l)]
    IN [h2 EXCEPT ![o.classes] = DictSetItem(h2[o.classes], id, c)]

\* add_sample as it would be with the item assignments placed before the
\* two assertions
AddSampleStoreFirst(h, o, id, f, l, c) ==
    IF id \notin DictKeys(h[o.data])
    THEN IF num_samples(h, o) <= 0
         THEN [h |-> Store3(h, o, id, f, l, c),
               o |-> [o EXCEPT !.dtype = f.type, !.num_features = f.len], res |-> "ok"]
         ELSE IF o.num_features # f.len
         THEN [h |-> Store3(h, o, id, f, l, c), o |-> o, res |-> "DimensionalityError"]
         ELSE IF o.dtype = "unset"
         THEN [h |-> Store3(h, o, id, f, l, c), o |-> o, res |-> "AttributeError"]
         ELSE IF ~IsInstance(f.type, o.dtype)
         THEN [h |-> Store3(h, o, id, f, l, c), o |-> o, res |-> "TypeMismatchError"]
         ELSE [h |-> Store3(h, o, id, f, l, c), o |-> o, res |-> "ok"]
    ELSE [h |-> h, o |-> o, res |-> "DuplicateKeyError"]

\* the new heap, the new fields of the object, and the branch that decided
AddSample(h, o, id, f, l, c) ==
    IF id \notin DictKeys(h[o.data])
    THEN IF num_samples(h, o) <= 0
         THEN [h |-> Store3(h, o, id, f, l, c),
               o |-> [o EXCEPT !.dtype = f.type, !.num_features = f.len], res |-> "ok"]
         ELSE IF o.num_features # f.len
         THEN [h |-> h, o |-> o, res |-> "DimensionalityError"]
         ELSE IF o.dtype = "unset"
         THEN [h |-> h, o |-> o, res |-> "AttributeError"]
         ELSE IF ~IsInstance(f.type, o.dtype)
         THEN [h |-> h, o |-> o, res |-> "TypeMismatchError"]
         ELSE [h |-> Store3(h, o, id, f, l, c), o |-> o, res |-> "ok"]
    ELSE [h |-> h, o |-> o, res |-> "DuplicateKeyError"]

add_sample(t, id, f, l, c) ==
    /\ ds[t].alive
    /\ LET out == AddSample(heap, ds[t], id, f, l, c)
       IN /\ heap' = out.h
          /\ ds' = [ds EXCEPT ![t] = out.o]
          /\ last' = [op |-> "add_sample", slot |-> t, res |-> out.res,
                      args |-> [id |-> id, features |-> f, label |-> l, class_id |-> c]]

\* ---- data.setter / labels.setter / add_classes / description.setter ----
\* the caller's mapping object itself becomes the dataset's mapping (no copy)
DataSetResult(h, o, values) ==
    IF IsDict(values)
    THEN IF DictLen(h[o.labels]) # DictLen(values) THEN "SizeMismatchError"
         ELSE IF DictLen(values) < 1 THEN "EmptyDatasetError"
         ELSE "ok"
    ELSE "SchemaError"

data_setter(t, values) ==
    LET r == DataSetResult(heap, ds[t], values)
        a == NewAddr(ds, t, "data")
        d1 == IF r = "ok" THEN [ds EXCEPT ![t].data = a] ELSE ds
    IN /\ ds[t].alive
       /\ ds' = d1
       /\ heap' = Collect(IF r = "ok" THEN [heap EXCEPT ![a] = values] ELSE heap, d1)
       /\ last' = [op |-> "data_setter", slot |-> t, res |-> r, args |-> [values |-> values]]

LabelsSetResult(h, o, values) ==
    IF IsDict(values)
    THEN IF DictLen(h[o.data]) # DictLen(values) THEN "SizeMismatchError"
         ELSE "ok"
    ELSE "SchemaError"

labels_setter(t, values) ==
    LET r == LabelsSetResult(heap, ds[t], values)
        a == NewAddr(ds, t, "labels")
        d1 == IF r = "ok" THEN [ds EXCEPT ![t].labels = a] ELSE ds
    IN /\ ds[t].alive
       /\ ds' = d1
       /\ heap' = Collect(IF r = "ok" THEN [heap EXCEPT ![a] = values] ELSE heap, d1)
       /\ last' = [op |-> "labels_setter", slot |-> t, res |-> r,
                   args |-> [values |-> values]]

AddClassesResult(h, o, clss) ==
    IF ~IsDict(clss) THEN "SchemaError"
    ELSE IF DictLen(clss) # num_samples(h, o) THEN "SizeMismatchError"
    ELSE IF ~(DictKeys(clss) \subseteq DictKeys(h[o.data])) THEN "UnknownKeyError"
    ELSE "ok"

add_classes(t, clss) ==
    LET r == AddClassesResult(heap, ds[t], clss)
        a == NewAddr(ds, t, "classes")
        d1 == IF r = "ok" THEN [ds EXCEPT ![t].classes = a] ELSE ds
    IN /\ ds[t].alive
       /\ ds' = d1
       /\ heap' = Collect(IF r = "ok" THEN [heap EXCEPT ![a] = clss] ELSE heap, d1)
       /\ last' = [op |-> "add_classes", slot |-> t, res |-> r, args |-> [classes |-> clss]]

DescriptionSet(o, str_val) ==
    IF str_val = ""
    THEN [o |-> o, res |-> "ValueError"]
    ELSE [o |-> [o EXCEPT !.description = str_val], res |-> "ok"]

description_setter(t, str_val) ==
    LET r == DescriptionSet(ds[t], str_val)
    IN /\ ds[t].alive
       /\ ds' = [ds EXCEPT ![t] = r.o]
       /\ heap' = heap
       /\ last' = [op |-> "description_setter", slot |-> t, res |-> r.res,
                   args |-> [str_val |-> str_val]]

\* ---- get_subset / get_class ----
SeqRange(s) == {s[i] : i \in 1..Len(s)}

RECURSIVE FilterItems(_, _)
FilterItems(items, subset) ==
    IF items = <<>> THEN <<>>
    ELSE IF Head(items)[1] \in subset
         THEN <<Head(items)>> \o FilterItems(Tail(items), subset)
         ELSE FilterItems(Tail(items), subset)

\* __get_subset_from_dict: the items of dict whose key is in subset, in dict's order
GetSubsetFromDict(m, subset) ==
    [kind |-> "OrderedDict", items |-> FilterItems(m.items, SeqRange(subset))]

\* get_subset as it would be if the no-match test were `>= 0`: it always
\* builds the subset through the bulk constructor
GetSubsetNoEmptyBranch(h, d, t, r, subset_ids) ==
    LET o == d[t]
        data == GetSubsetFromDict(h[o.data], subset_ids)
        labels == GetSubsetFromDict(h[o.labels], subset_ids)
        clss == GetSubsetFromDict(h[o.classes], subset_ids)
        built == MLDataset(h, d, r, data, labels, clss, "")
        descr == DescriptionSet(built.o, built.o.description \o "\n Subset derived from: "
                                                              \o o.description)
    IN IF built.res = "ok"
       THEN [h |-> built.h, o |-> descr.o, res |-> descr.res]
       ELSE [h |-> h, o |-> Dead, res |-> built.res]

\* get_subset as it would be if a request covering every key handed out the
\* parent's own mapping objects instead of building new ones
GetSubsetSharingMappings(h, d, t, r, subset_ids) ==
    LET o == d[t]
        num_existing_keys ==
            Cardinality({i \in 1..Len(subset_ids) : subset_ids[i] \in DictKeys(h[o.data])})
        data == GetSubsetFromDict(h[o.data], subset_ids)
        labels == GetSubsetFromDict(h[o.labels], subset_ids)
        clss == GetSubsetFromDict(h[o.classes], subset_ids)
        built == MLDataset(h, d, r, data, labels, clss, "")
        descr == DescriptionSet(built.o, built.o.description \o "\n Subset derived from: "
                                                              \o o.description)
        e == MLDataset(h, d, r, NoneV, NoneV, NoneV, "")
    IN IF num_existing_keys > 0
       THEN IF built.res = "ok"
            THEN IF DictKeys(h[o.data]) \subseteq SeqRange(subset_ids)
                 THEN [h |-> h,
                       o |-> [descr.o EXCEPT !.data = o.data, !.labels = o.labels,
                                             !.classes = o.classes],
                       res |-> descr.res]
                 ELSE [h |-> built.h, o |-> descr.o, res |-> descr.res]
            ELSE [h |-> h, o |-> Dead, res |-> built.res]
       ELSE [h |-> e.h, o |-> e.o, res |-> "warning"]

\* self.get_subset(subset_ids) with the returned dataset bound in slot r:
\* the new heap, the returned object (Dead when an exception left), the result
GetSubset(h, d, t, r, subset_ids) ==
    LET o == d[t]
        num_existing_keys ==
            Cardinality({i \in 1..Len(subset_ids) : subset_ids[i] \in DictKeys(h[o.data])})
        data == GetSubsetFromDict(h[o.data], subset_ids)
        labels == GetSubsetFromDict(h[o.labels], subset_ids)
        clss == GetSubsetFromDict(h[o.classes], subset_ids)
        sub == MLDataset(h, d, r, data, labels, clss, "")
        descr == DescriptionSet(sub.o, sub.o.description \o "\n Subset derived from: "
                                                          \o o.description)
        e == MLDataset(h, d, r, NoneV, NoneV, NoneV, "")
    IN IF num_existing_keys > 0
       THEN IF sub.res = "ok"
            THEN [h |-> sub.h, o |-> descr.o, res |-> descr.res]
            ELSE [h |-> h, o |-> Dead, res |-> sub.res]
       ELSE [h |-> e.h, o |-> e.o, res |-> "warning"]

\* sub = D.get_subset(ids): sub is rebound only when the call returns
Rebind(d, r, out) == IF out.o.alive THEN [d EXCEPT ![r] = out.o] ELSE d

get_subset(t, r, subset_ids) ==
    LET out == GetSubset(heap, ds, t, r, subset_ids)
        d1 == Rebind(ds, r, out)
    IN /\ ds[t].alive /\ t # r
       /\ ds' = d1
       /\ heap' = Collect(out.h, d1)
       /\ last' = [op |-> "get_subset", slot |-> t, res |-> out.res,
                   args |-> [subset_ids |-> subset_ids]]

\* [sub_id for sub_id in self.__classes if self.__classes[sub_id] == class_id]
RECURSIVE SubsetInClass(_, _)
SubsetInClass(items, class_id) ==
    IF items = <<>> THEN <<>>
    ELSE IF Head(items)[2] = class_id
         THEN <<Head(items)[1]>> \o SubsetInClass(Tail(items), class_id)
         ELSE SubsetInClass(Tail(items), class_id)

GetClass(h, d, t, r, class_id) ==
    IF class_id \in class_set(h, d[t])
    THEN GetSubset(h, d, t, r, SubsetInClass(h[d[t].classes].items, class_id))
    ELSE [h |-> h, o |-> Dead, res |-> "UnknownClassError"]

get_class(t, r, class_id) ==
    LET out == GetClass(heap, ds, t, r, class_id)
        d1 == Rebind(ds, r, out)
    IN /\ ds[t].alive /\ t # r
       /\ ds' = d1
       /\ heap' = Collect(out.h, d1)
       /\ last' = [op |-> "get_class", slot |-> t, res |-> out.res,
                   args |-> [class_id |-> class_id]]

\* ---- D = MLDataset(data, labels, classes, description) ----
\* the name D is bound only when the constructor returns
construct(t, data, labels, clss, description) ==
    LET out == MLDataset(heap, ds, t, data, labels, clss, description)
        d1 == Rebind(ds, t, out)
    IN /\ ds' = d1
       /\ heap' = Collect(out.h, d1)
       /\ last' = [op |-> "init", slot |-> t, res |-> out.res,
                   args |-> [data |-> data, labels |-> labels, classes |-> clss,
                             description |-> description]]

\* ---- the calling program ----
\* `last` is the call the program has just made and how it ended; the program
\* looks at the outcome and goes on to its next statement.
Idle == [op |-> "idle", slot |-> 0, res |-> "ok", args |-> <<>>]

Proceed ==
    /\ last # Idle
    /\ last' = Idle
    /\ UNCHANGED <<heap, ds>>

\* going on, the program drops its reference to the dataset in slot r; nothing
\* else refers to the object, so it is collected
Drop(r) ==
    /\ last # Idle
    /\ ds[r].alive
    /\ ds' = [ds EXCEPT ![r] = Dead]
    /\ heap' = Collect(heap, ds')
    /\ last' = Idle

\* ---- arguments the caller passes ----
LabelOf(id) == IF id = "s1" THEN 0 ELSE 1
IdSeqs == UNION {[1..n -> Keys] : n \in 0..MaxIds}
FeatDicts == Dicts(Feats)
\* label dictionaries give every sample id its own label
LabelDicts == {m \in Dicts(Labels) : \A i \in 1..DictLen(m) : m.items[i][2] = LabelOf(m.items[i][1])}
ClassDicts == Dicts(ClassIds)
DataArgs == FeatDicts \cup {NoneV, NotADict}
LabelArgs == LabelDicts \cup {NoneV, NotADict}
ClassArgs == ClassDicts \cup {NoneV, NotADict}

\* ---- before the first statement of the program: no dataset exists ----
Init ==
    /\ heap = [a \in Addrs |-> NoObj]
    /\ ds = [s \in Slots |-> Dead]
    /\ last = Idle

\* Operations on the dataset D (slot 1); a dataset returned by get_subset or
\* get_class (slot 2) is dropped by the caller before D is used again.
Next ==
    \/ /\ last = Idle /\ ~ds[1].alive
       /\ \E data \in DataArgs, labels \in LabelArgs, clss \in ClassArgs :
             construct(1, data, labels, clss, "")
    \/ /\ last = Idle
       /\ \E id \in Keys, f \in Feats, c \in ClassIds : add_sample(1, id, f, LabelOf(id), c)
    \/ /\ last = Idle
       /\ \E values \in FeatDicts \cup {NotADict} : data_setter(1, values)
    \/ /\ last = Idle
       /\ \E values \in LabelDicts \cup {NotADict} : labels_setter(1, values)
    \/ /\ last = Idle
       /\ \E clss \in ClassDicts \cup {NotADict} : add_classes(1, clss)
    \/ /\ last = Idle
       /\ \E subset_ids \in IdSeqs : get_subset(1, 2, subset_ids)
    \/ /\ last = Idle
       /\ \E class_id \in ClassIds : get_class(1, 2, class_id)
    \/ Drop(2)
    \/ ~ds[2].alive /\ Proceed

Spec == Init /\ [][Next]_vars

\* The same operations without the unchecked wholesale data setter.
NextNoDataSetter ==
    \/ /\ last = Idle /\ ~ds[1].alive
       /\ \E data \in DataArgs, labels \in LabelArgs, clss \in ClassArgs :
             construct(1, data, labels, clss, "")
    \/ /\ last = Idle
       /\ \E id \in Keys, f \in Feats, c \in ClassIds : add_sample(1, id, f, LabelOf(id), c)
    \/ /\ last = Idle
       /\ \E values \in LabelDicts \cup {NotADict} : labels_setter(1, values)
    \/ /\ last = Idle
       /\ \E clss \in ClassDicts \cup {NotADict} : add_classes(1, clss)
    \/ /\ last = Idle
       /\ \E subset_ids \in IdSeqs : get_subset(1, 2, subset_ids)
    \/ /\ last = Idle
       /\ \E class_id \in ClassIds : get_class(1, 2, class_id)
    \/ Drop(2)
    \/ ~ds[2].alive /\ Proceed

SpecNoDataSetter == Init /\ [][NextNoDataSetter]_vars

\* A dataset built by the constructor and add_sample calls only.
NextBuild ==
    \/ /\ last = Idle /\ ~ds[1].alive
       /\ \E data \in DataArgs, labels \in LabelArgs, clss \in ClassArgs :
             construct(1, data, labels, clss, "")
    \/ /\ last = Idle
       /\ \E id \in Keys, f \in Feats, c \in ClassIds : add_sample(1, id, f, LabelOf(id), c)
    \/ Proceed

SpecBuild == Init /\ [][NextBuild]_vars

\* A parent D (slot 1) and a dataset derived from it by get_subset or
\* get_class (slot 2), both kept and both used afterwards.  The arguments are
\* drawn from smaller sets: one feature vector shape, one class id.
DerivedFeats == [type : {"list"}, len : {1}]
DerivedFeatDicts == Dicts(DerivedFeats)
DerivedClassDicts == Dicts({"x"})

NextDerived ==
    \/ /\ last = Idle /\ ~ds[1].alive
       /\ \E data \in DerivedFeatDicts \cup {NoneV}, labels \in LabelDicts,
             clss \in DerivedClassDicts, description \in Descriptions :
             construct(1, data, labels, clss, description)
    \/ /\ last = Idle
       /\ \E t \in Slots, id \in Keys, f \in DerivedFeats : add_sample(t, id, f, LabelOf(id), "x")
    \/ /\ last = Idle
       /\ \E t \in Slots, values \in DerivedFeatDicts : data_setter(t, values)
    \/ /\ last = Idle
       /\ \E t \in Slots, values \in LabelDicts : labels_setter(t, values)
    \/ /\ last = Idle
       /\ \E t \in Slots, clss \in DerivedClassDicts : add_classes(t, clss)
    \/ /\ last = Idle
       /\ \E t \in Slots, str_val \in Descriptions : description_setter(t, str_val)
    \/ /\ last = Idle
       /\ \E subset_ids \in IdSeqs : get_subset(1, 2, subset_ids)
    \/ /\ last = Idle
       /\ \E class_id \in ClassIds : get_class(1, 2, class_id)
    \/ Proceed

SpecDerived == Init /\ [][NextDerived]_vars

\* ---- what a caller can observe of a dataset ----
View(h, o) ==
    [data |-> h[o.data].items, labels |-> h[o.labels].items, classes |-> h[o.classes].items,
     num_samples |-> num_samples(h, o), num_features |-> o.num_features,
     description |-> o.description]

D == ds[1]
sub == ds[2]

RECURSIVE SumSeq(_)
SumSeq(q) == IF q = <<>> THEN 0 ELSE Head(q) + SumSeq(Tail(q))

RECURSIVE SetToSeq(_)
SetToSeq(S) == IF S = {} THEN <<>> ELSE LET x == CHOOSE x \in S : TRUE IN <<x>> \o SetToSeq(S \ {x})

\* the counts of class_sizes summed over its class ids
ClassSizesTotal(h, o) ==
    LET cs == class_sizes(h, o)
        q == SetToSeq(DOMAIN cs)
    IN SumSeq([i \in 1..Len(q) |-> cs[q[i]]])

\* C1: after every public operation the feature, label and class mappings of
\* a dataset have identical key sets and identical sizes.
C1_KeySetsAgree ==
    \A s \in Slots : ds[s].alive =>
        /\ DictKeys(heap[ds[s].data]) = DictKeys(heap[ds[s].labels])
        /\ DictKeys(heap[ds[s].data]) = DictKeys(heap[ds[s].classes])
        /\ DictLen(heap[ds[s].data]) = DictLen(heap[ds[s].labels])
        /\ DictLen(heap[ds[s].data]) = DictLen(heap[ds[s].classes])

\* C2: add_sample with an id that is already a key fails with the
\* duplicate-key error, and every failing add_sample leaves the dataset as it
\* was: same three mappings in the same key order, same num_samples, same
\* num_features.
C2_FailedAddSampleChangesNothing ==
    [][last'.op = "add_sample" =>
          /\ (last'.args.id \in DictKeys(heap[ds[last'.slot].data])
                 => last'.res = "DuplicateKeyError")
          /\ (last'.res # "ok"
                 => View(heap', ds'[last'.slot]) = View(heap, ds[last'.slot]))]_vars

C2_Witness ==
    /\ last.op = "add_sample"
    /\ last.res = "DuplicateKeyError"
    /\ last.args.id \in DictKeys(heap[D.data])

\* C7: the counts in class_sizes summed over all class ids equal num_samples.
C7_ClassSizesSumToNumSamples ==
    \A s \in Slots : ds[s].alive => ClassSizesTotal(heap, ds[s]) = num_samples(heap, ds[s])

\* position of key k in the iteration order of mapping m
Pos(m, k) == CHOOSE i \in 1..Len(m.items) : m.items[i][1] = k

\* the keys of sequence q appear in the same relative order as in mapping m
InOrderOf(q, m) == \A i, j \in 1..Len(q) : i < j => Pos(m, q[i]) < Pos(m, q[j])

\* C3: when ids shares at least one id with D's keys, get_subset(ids) returns
\* a dataset whose keys are exactly ids intersected with D's keys, in D's own
\* relative key order, each with the features, label and class id it has in D.
C3_SubsetIsIntersectionInParentOrder ==
    (/\ last.op = "get_subset"
     /\ SeqRange(last.args.subset_ids) \cap DictKeys(heap[D.data]) # {})
    => /\ last.res = "ok"
       /\ sub.alive
       /\ LET kept == SeqRange(last.args.subset_ids) \cap DictKeys(heap[D.data])
          IN /\ DictKeys(heap[sub.data]) = kept
             /\ DictKeys(heap[sub.labels]) = kept
             /\ DictKeys(heap[sub.classes]) = kept
             /\ num_samples(heap, sub) = Cardinality(kept)
             /\ InOrderOf(keys(heap, sub), heap[D.data])
             /\ \A k \in kept :
                  /\ DictGet(heap[sub.data], k) = DictGet(heap[D.data], k)
                  /\ k \in DictKeys(heap[D.labels])
                  /\ DictGet(heap[sub.labels], k) = DictGet(heap[D.labels], k)
                  /\ k \in DictKeys(heap[D.classes])
                  /\ DictGet(heap[sub.classes], k) = DictGet(heap[D.classes], k)

\* C4: get_class(c) with c among D's class ids returns a dataset holding
\* exactly the samples whose class id is c, in mapping order; with any other c
\* it fails with the unknown-class error and returns no dataset.
C4_GetClassReturnsExactlyTheClass ==
    last.op = "get_class" =>
       LET c == last.args.class_id
           members == {k \in DictKeys(heap[D.data]) :
                          /\ k \in DictKeys(heap[D.classes])
                          /\ DictGet(heap[D.classes], k) = c}
       IN IF c \in class_set(heap, D)
          THEN /\ last.res = "ok"
               /\ sub.alive
               /\ DictKeys(heap[sub.data]) = members
               /\ DictKeys(heap[sub.classes]) = members
               /\ InOrderOf(keys(heap, sub), heap[D.data])
          ELSE /\ last.res = "UnknownClassError"
               /\ ~sub.alive

\* C5: the bulk constructor called with a data argument fails unless data,
\* labels and classes are three mappings of equal length with identical key
\* sets; when it succeeds num_samples = len(data) = len(labels) = len(classes)
\* and the three stored key sets are identical.
C5_BulkConstructorValidates ==
    (last.op = "init" /\ ~IsNone(last.args.data) /\ last.res = "ok")
    => /\ IsDict(last.args.data) /\ IsDict(last.args.labels) /\ IsDict(last.args.classes)
       /\ DictLen(last.args.data) = DictLen(last.args.labels)
       /\ DictLen(last.args.data) = DictLen(last.args.classes)
       /\ DictKeys(last.args.data) = DictKeys(last.args.labels)
       /\ DictKeys(last.args.data) = DictKeys(last.args.classes)
       /\ num_samples(heap, ds[last.slot]) = DictLen(last.args.data)
       /\ DictKeys(heap[ds[last.slot].data]) = DictKeys(heap[ds[last.slot].labels])
       /\ DictKeys(heap[ds[last.slot].data]) = DictKeys(heap[ds[last.slot].classes])

\* C6: on a non-empty dataset, however it was built, the dimensionality and
\* element type are those of the first feature vector: add_sample with a new
\* id fails with the dimensionality error when the length differs, with the
\* type-mismatch error when the container type differs, and otherwise
\* succeeds, appending the id to the key order of all three mappings and
\* raising num_samples by one.
C6_AddSampleChecksAgainstFirstVector ==
    [][(/\ last'.op = "add_sample"
        /\ num_samples(heap, ds[last'.slot]) > 0
        /\ last'.args.id \notin DictKeys(heap[ds[last'.slot].data]))
       => LET o == ds[last'.slot]
              o2 == ds'[last'.slot]
              first == heap[o.data].items[1][2]
              f == last'.args.features
          IN /\ o.num_features = first.len
             /\ f.len # first.len => last'.res = "DimensionalityError"
             /\ (f.len = first.len /\ f.type # first.type) => last'.res = "TypeMismatchError"
             /\ (f.len = first.len /\ f.type = first.type)
                   => /\ last'.res = "ok"
                      /\ KeySeq(heap'[o2.data]) = Append(KeySeq(heap[o.data]), last'.args.id)
                      /\ KeySeq(heap'[o2.labels]) = Append(KeySeq(heap[o.labels]), last'.args.id)
                      /\ KeySeq(heap'[o2.classes]) = Append(KeySeq(heap[o.classes]), last'.args.id)
                      /\ num_samples(heap', o2) = num_samples(heap, o) + 1]_vars

\* C9: get_subset with an empty id collection, or with ids none of which is a
\* key, does not raise: it warns and returns a new empty dataset
\* (num_samples = 0, num_features = 0) and leaves the parent unchanged.
C9_NoMatchGivesEmptyDataset ==
    [][(/\ last'.op = "get_subset"
        /\ SeqRange(last'.args.subset_ids) \cap DictKeys(heap[D.data]) = {})
       => /\ last'.res = "warning"
          /\ sub'.alive
          /\ num_samples(heap', sub') = 0
          /\ sub'.num_features = 0
          /\ View(heap', D') = View(heap, D)]_vars

C9_Witness ==
    /\ last.op = "get_subset"
    /\ last.args.subset_ids # <<>>
    /\ num_samples(heap, D) > 0
    /\ SeqRange(last.args.subset_ids) \cap DictKeys(heap[D.data]) = {}
    /\ last.res = "warning"
    /\ sub.alive

\* C10: without the data setter, every stored feature vector of a non-empty
\* dataset has length num_features, and a non-empty dataset returned by
\* get_subset or get_class has the parent's num_features.
C10_UniformFeatureLength ==
    /\ \A s \in Slots : (ds[s].alive /\ num_samples(heap, ds[s]) > 0) =>
          \A i \in 1..num_samples(heap, ds[s]) :
              heap[ds[s].data].items[i][2].len = ds[s].num_features
    /\ (last.op \in {"get_subset", "get_class"} /\ sub.alive /\ num_samples(heap, sub) > 0)
          => sub.num_features = D.num_features

C10_Witness ==
    /\ last.op = "get_class"
    /\ last.res = "ok"
    /\ num_samples(heap, D) = 2
    /\ num_samples(heap, sub) = 1
    /\ D.num_features = 2

Mutators == {"add_sample", "data_setter", "labels_setter", "add_classes", "description_setter"}

\* C8: a dataset returned by get_subset or get_class is an independent copy:
\* no later mutation of the derived dataset changes what the parent holds
\* (mappings, key order, num_samples, num_features, description), and no later
\* mutation of the parent changes the derived dataset.
C8_DerivedIsIndependent ==
    [][(last'.op \in Mutators /\ D.alive /\ sub.alive)
       => View(heap', ds'[3 - last'.slot]) = View(heap, ds[3 - last'.slot])]_vars

C8_Witness ==
    /\ last.op = "data_setter"
    /\ last.slot = 2
    /\ last.res = "ok"
    /\ D.alive
    /\ num_samples(heap, D) > 0
    /\ heap[sub.data].items # heap[D.data].items
====
